---- MODULE Spec2Model ----
(***************************************************************************)
(* State-machine model of the Loxone climate platform                      *)
(* (custom_components/loxone/climate.py): one climate entity, either a     *)
(* LoxoneRoomControllerV2 or a LoxoneAcControl, its value cache, the       *)
(* events delivered to it and the commands it fires on the bus.            *)
(*                                                                         *)
(* Python values are tagged records [t, n, s]:                             *)
(*   t = "none" | "int" | "float" | "bool" | "str" | "list"                *)
(*   n = the integer (int), the value in tenths (float), 0/1 (bool),       *)
(*       the length (list)                                                 *)
(*   s = the text (str)                                                    *)
(***************************************************************************)
EXTENDS Integers, Sequences, FiniteSets, TLC

VARIABLES
    type,               \* self.type
    stateAttribUuids,   \* self._stateAttribUuids : name -> channel id
    stateAttribValues,  \* self._stateAttribValues : channel id -> value
    autoMode,           \* self._autoMode
    modeList,           \* self._modeList : sequence of [id, name]
    call,               \* the operation handled last and its input
    fired,              \* hass.bus.fire calls of the last operation, in order
    scheduled,          \* schedule_update_ha_state calls of the last operation
    raised,             \* TRUE iff the last operation raised to its caller
    delivered,          \* history: last value an event carried per registered id
    sensor,             \* the text status entity: its class, channel ids and the
                        \* fields self._state, self._icon, self._color
    sensorCall          \* the operation the text status entity handled last

vars == <<type, stateAttribUuids, stateAttribValues, autoMode, modeList,
          call, fired, scheduled, raised, delivered, sensor, sensorCall>>

-----------------------------------------------------------------------------
(* Python values *)

None == [t |-> "none", n |-> 0, s |-> ""]

PyInt(k) == [t |-> "int", n |-> k, s |-> ""]

PyFloat(tenths) == [t |-> "float", n |-> tenths, s |-> ""]

PyBool(b) == [t |-> "bool", n |-> IF b THEN 1 ELSE 0, s |-> ""]

PyStr(text) == [t |-> "str", n |-> 0, s |-> text]

\* the list of len elements, each the int 1
PyList(len) == [t |-> "list", n |-> len, s |-> ""]

\* the dicts of the model, by number: DictItems[k] is the dict's content
PyDict(k) == [t |-> "dict", n |-> k, s |-> ""]

DictItems ==
    << ("icon" :> PyStr("flame") @@ "color" :> PyStr("red")),
       ("text" :> PyStr("Open")),
       ("icon" :> PyInt(5)),
       ("icon" :> PyStr("Icons/Radiator.svg") @@ "color" :> PyStr("blue")),
       ("color" :> PyStr("red")),
       ("a" :> PyInt(1)) >>

\* the keys of the dicts, in insertion order
DictKeys ==
    << <<"icon", "color">>, <<"text">>, <<"icon">>, <<"icon", "color">>, <<"color">>,
       <<"a">> >>

\* d.get(key, default)
DictGet(d, key, default) ==
    IF key \in DOMAIN DictItems[d.n] THEN DictItems[d.n][key] ELSE default

IsNumber(v) == v.t \in {"int", "float", "bool"}

\* the numeric value of an int, float or bool, in tenths
Tenths(v) == IF v.t = "float" THEN v.n ELSE 10 * v.n

\* Python ==  (int, float and bool compare by numeric value)
PyEq(a, b) ==
    IF IsNumber(a) /\ IsNumber(b) THEN Tenths(a) = Tenths(b)
    ELSE a.t = b.t /\ a.n = b.n /\ a.s = b.s

\* Python truth value, as tested by `not x` and `x or y`
Truthy(v) ==
    CASE v.t = "none" -> FALSE
      [] v.t = "str"  -> v.s # ""
      [] OTHER        -> v.n # 0

\* Python `a or b`
PyOr(a, b) == IF Truthy(a) THEN a ELSE b

\* Python `x in (t1, ..., tn)`
InTuple(x, tuple) == \E i \in 1..Len(tuple) : PyEq(x, tuple[i])

-----------------------------------------------------------------------------
(* Text *)

UpperCase == "ABCDEFGHIJKLMNOPQRSTUVWXYZ"

LowerCase == "abcdefghijklmnopqrstuvwxyz"

LowerChar(c) ==
    IF \E i \in 1..26 : SubSeq(UpperCase, i, i) = c
    THEN LET i == CHOOSE i \in 1..26 : SubSeq(UpperCase, i, i) = c
         IN  SubSeq(LowerCase, i, i)
    ELSE c

RECURSIVE Lower(_)
Lower(text) ==
    IF Len(text) = 0 THEN ""
    ELSE Lower(SubSeq(text, 1, Len(text) - 1)) \o LowerChar(SubSeq(text, Len(text), Len(text)))

\* text.find(c) + 1: the position of the first c in the text, 0 if there is none
IndexOf(text, c) ==
    IF \E i \in 1..Len(text) : SubSeq(text, i, i) = c
    THEN CHOOSE i \in 1..Len(text) :
            /\ SubSeq(text, i, i) = c
            /\ \A j \in 1..(i - 1) : SubSeq(text, j, j) # c
    ELSE 0

\* text.split(c)
RECURSIVE Split(_, _)
Split(text, c) ==
    LET i == IndexOf(text, c)
    IN  IF i = 0 THEN <<text>>
        ELSE <<SubSeq(text, 1, i - 1)>> \o Split(SubSeq(text, i + 1, Len(text)), c)

\* text.strip(c)
RECURSIVE Strip(_, _)
Strip(text, c) ==
    IF Len(text) > 0 /\ SubSeq(text, 1, 1) = c
    THEN Strip(SubSeq(text, 2, Len(text)), c)
    ELSE IF Len(text) > 0 /\ SubSeq(text, Len(text), Len(text)) = c
    THEN Strip(SubSeq(text, 1, Len(text) - 1), c)
    ELSE text

\* text.replace(pattern, "")
RECURSIVE Remove(_, _)
Remove(text, pattern) ==
    IF Len(text) < Len(pattern) THEN text
    ELSE IF SubSeq(text, 1, Len(pattern)) = pattern
    THEN Remove(SubSeq(text, Len(pattern) + 1, Len(text)), pattern)
    ELSE SubSeq(text, 1, 1) \o Remove(SubSeq(text, 2, Len(text)), pattern)

-----------------------------------------------------------------------------
(* Text of numbers *)

Digits == "0123456789"

IsDigit(c) == \E i \in 1..10 : SubSeq(Digits, i, i) = c

DigitVal(c) == (CHOOSE i \in 1..10 : SubSeq(Digits, i, i) = c) - 1

RECURSIVE NatStr(_)
NatStr(k) ==
    IF k < 10 THEN SubSeq(Digits, k + 1, k + 1)
    ELSE NatStr(k \div 10) \o SubSeq(Digits, (k % 10) + 1, (k % 10) + 1)

IntStr(k) == IF k < 0 THEN "-" \o NatStr(-k) ELSE NatStr(k)

\* repr(x) of a text or an int, as str() of a dict writes its keys and values
Repr(v) == IF v.t = "str" THEN "'" \o v.s \o "'" ELSE IntStr(v.n)

\* ", ".join of len times "1"
RECURSIVE JoinOnes(_)
JoinOnes(len) ==
    IF len = 0 THEN ""
    ELSE IF len = 1 THEN "1"
    ELSE LET half == JoinOnes(len \div 2)
         IN  IF len % 2 = 0 THEN half \o ", " \o half
             ELSE half \o ", " \o half \o ", 1"

\* ", ".join of the first i items of dict k, each written key: value
RECURSIVE JoinItems(_, _)
JoinItems(k, i) ==
    IF i = 0 THEN ""
    ELSE (IF i > 1 THEN JoinItems(k, i - 1) \o ", " ELSE "")
         \o Repr(PyStr(DictKeys[k][i])) \o ": " \o Repr(DictItems[k][DictKeys[k][i]])

\* str(x) / f"{x}"
Str(v) ==
    CASE v.t = "none"  -> "None"
      [] v.t = "int"   -> IntStr(v.n)
      [] v.t = "float" -> IF v.n < 0
                            THEN "-" \o NatStr((-v.n) \div 10) \o "." \o NatStr((-v.n) % 10)
                            ELSE NatStr(v.n \div 10) \o "." \o NatStr(v.n % 10)
      [] v.t = "bool"  -> IF v.n = 1 THEN "True" ELSE "False"
      [] v.t = "str"   -> v.s
      [] v.t = "dict"  -> "{" \o JoinItems(v.n, Len(DictKeys[v.n])) \o "}"
      [] OTHER         -> "[" \o JoinOnes(v.n) \o "]"

AllDigits(text) == Len(text) > 0 /\ \A i \in 1..Len(text) : IsDigit(SubSeq(text, i, i))

RECURSIVE NatVal(_)
NatVal(text) ==
    IF Len(text) = 0 THEN 0
    ELSE 10 * NatVal(SubSeq(text, 1, Len(text) - 1))
         + DigitVal(SubSeq(text, Len(text), Len(text)))

Unsigned(text) ==
    IF Len(text) > 0 /\ SubSeq(text, 1, 1) \in {"-", "+"}
    THEN SubSeq(text, 2, Len(text)) ELSE text

Sign(text) == IF Len(text) > 0 /\ SubSeq(text, 1, 1) = "-" THEN -1 ELSE 1

DotAt(text) ==
    IF \E i \in 1..Len(text) : SubSeq(text, i, i) = "."
    THEN CHOOSE i \in 1..Len(text) : SubSeq(text, i, i) = "."
    ELSE 0

\* an integer literal: [sign] digits
IsIntText(text) == AllDigits(Unsigned(text))

\* a decimal literal with one fractional digit: [sign] digits . digit
IsDecimalText(text) ==
    LET u == Unsigned(text)
        d == DotAt(u)
    IN  /\ d > 1
        /\ d = Len(u) - 1
        /\ AllDigits(SubSeq(u, 1, d - 1))
        /\ IsDigit(SubSeq(u, Len(u), Len(u)))

Failed == [ok |-> FALSE, n |-> 0]

Parsed(k) == [ok |-> TRUE, n |-> k]

\* float(x): the value in tenths, or a TypeError / ValueError
PyFloatOf(v) ==
    CASE IsNumber(v) -> Parsed(Tenths(v))
      [] v.t = "str" ->
            IF IsIntText(v.s) THEN Parsed(Sign(v.s) * 10 * NatVal(Unsigned(v.s)))
            ELSE IF IsDecimalText(v.s)
            THEN LET u == Unsigned(v.s)
                 IN  Parsed(Sign(v.s) * (10 * NatVal(SubSeq(u, 1, Len(u) - 2))
                                         + DigitVal(SubSeq(u, Len(u), Len(u)))))
            ELSE Failed
      [] OTHER -> Failed

\* int(x): truncation of a number, an integer literal, or a TypeError / ValueError
PyIntOf(v) ==
    CASE v.t \in {"int", "bool"} -> Parsed(v.n)
      [] v.t = "float" -> Parsed(IF v.n < 0 THEN -((-v.n) \div 10) ELSE v.n \div 10)
      [] v.t = "str" ->
            IF IsIntText(v.s) THEN Parsed(Sign(v.s) * NatVal(Unsigned(v.s))) ELSE Failed
      [] OTHER -> Failed

-----------------------------------------------------------------------------
(* Constants of climate.py and of the host framework it imports *)

HVACMode_OFF == "off"

HVACMode_HEAT == "heat"

HVACMode_COOL == "cool"

HVACMode_HEAT_COOL == "heat_cool"

HVACMode_AUTO == "auto"

HVACMode_DRY == "dry"

HVACAction_HEATING == "heating"

HVACAction_COOLING == "cooling"

HVACAction_IDLE == "idle"

\* a dict literal with int keys: the sequence of its <<key, value>> items
OPMODES ==
    << <<-1, HVACMode_OFF>>, <<0, HVACMode_AUTO>>, <<1, HVACMode_AUTO>>,
       <<2, HVACMode_AUTO>>, <<3, HVACMode_HEAT_COOL>>, <<4, HVACMode_HEAT>>,
       <<5, HVACMode_COOL>> >>

\* a dict literal with HVACMode keys
OPMODETOLOXONE ==
    << <<HVACMode_AUTO, 0>>, <<HVACMode_HEAT_COOL, 3>>, <<HVACMode_HEAT, 4>>,
       <<HVACMode_COOL, 5>>, <<HVACMode_OFF, -1>> >>

\* the action identifier of the entity (LoxoneEntity.uuidAction)
uuidAction == "uuid-action"

\* a TypeError / ValueError that leaves a property
Raises == "<raises>"

-----------------------------------------------------------------------------
(* Bounds of the model *)

\* the largest number of channel ids one event carries
MaxBatch == 2

\* the configured auto-mode codes 0..MaxAutoMode
MaxAutoMode == 2

Range(f) == {f[x] : x \in DOMAIN f}

\* values an event carries on a channel registered under `name`
NameValues(name) ==
    CASE name = "operatingMode" ->
            {PyInt(k) : k \in -1..6}
            \cup {PyFloat(40), PyStr("1"), PyStr("abc"), None, PyList(1)}
      [] name = "activeMode" ->
            {PyInt(0), PyInt(1), PyInt(9), None}
      [] name \in {"tempActual", "temperature"} ->
            {PyInt(21), PyFloat(215), PyStr("19.0"), PyStr("-5"), PyStr("abc"),
             None, PyList(1)}
      [] name \in {"tempTarget", "manualTemperature", "targetTemperature", "setpoint"} ->
            {PyInt(21), PyFloat(215), PyFloat(190), PyStr("19.0"), PyStr("abc"),
             None, PyList(1)}
      [] name = "status" ->
            {PyInt(0), PyInt(1), PyInt(2), PyFloat(10), PyBool(TRUE), PyBool(FALSE),
             PyStr("1"), PyStr("true"), PyStr("True"), PyStr("TRUE"),
             PyStr("on"), PyStr("ON"), PyStr("On"), PyStr("off"), None}
      [] name \in {"isHeating", "isCooling"} ->
            {PyInt(0), PyInt(1), PyInt(2), PyBool(TRUE), PyBool(FALSE),
             PyStr("1"), PyStr("true"), None}
      [] OTHER ->
            {None, PyList(0), PyList(2), PyStr("[1, 1]"), PyStr("[]"), PyStr("abc"),
             PyStr("{'a': 1}"), PyStr("__import__('sys').exit()"), PyInt(3)}

\* a channel id no climate entity of the model registers
OtherChannel == "u9"

OtherValues == {PyInt(7)}

Channels == {"u1", "u2", OtherChannel}

\* the `states` of the configuration tree, per entity type
StatesChoices(ty) ==
    IF ty = "RoomControllerV2"
    THEN { <<>>,
           ("operatingMode" :> "u1") @@ ("activeMode" :> "u2"),
           ("tempTarget" :> "u1") @@ ("manualTemperature" :> "u2"),
           ("tempActual" :> "u1") @@ ("overrideEntries" :> "u2") }
    ELSE { <<>>,
           ("status" :> "u1") @@ ("temperature" :> "u2"),
           ("isHeating" :> "u1") @@ ("isCooling" :> "u2"),
           ("targetTemperature" :> "u1") @@ ("setpoint" :> "u2") }

\* details.timerModes of the configuration tree
TimerModes ==
    << [id |-> 0, name |-> "Economy"], [id |-> 1, name |-> "Comfort"],
       [id |-> 2, name |-> "Comfort"] >>

\* the values a channel id may carry in an event, given the entity's `states`
ChannelValues(uuids, ch) ==
    IF \E nm \in DOMAIN uuids : uuids[nm] = ch
    THEN UNION {NameValues(nm) : nm \in {x \in DOMAIN uuids : uuids[x] = ch}}
    ELSE OtherValues

\* event.data when it is a mapping channel id -> value, per `states`
MappingsOf ==
    [uuids \in StatesChoices("RoomControllerV2") \cup StatesChoices("AcControl") |->
        UNION { {[isdict |-> TRUE, map |-> m, other |-> None] :
                    m \in {f \in [ks -> UNION {ChannelValues(uuids, c) : c \in ks}] :
                              \A c \in ks : f[c] \in ChannelValues(uuids, c)}} :
                ks \in {k \in SUBSET Channels : Cardinality(k) <= MaxBatch} }]

Mappings == MappingsOf[stateAttribUuids]

\* event.data when it is no mapping
NonMappings ==
    {[isdict |-> FALSE, map |-> <<>>, other |-> v] :
        v \in {None, PyList(1), PyStr("u1")}}

Events == Mappings \cup NonMappings

\* a key an event does not carry, a keyword a caller does not pass
Missing == [t |-> "missing", n |-> 0, s |-> ""]

\* the text status entity of a behaviour that has none
NoSensor ==
    [class |-> "", state_uuid_text |-> "", state_uuid_icon |-> "",
     state |-> None, icon |-> None, color |-> None, native_value |-> None]

NoSensorCall == [op |-> "init", text |-> Missing, icon |-> Missing, value |-> Missing]

NoCall ==
    [op |-> "init", mapping |-> FALSE, hit |-> FALSE, changed |-> FALSE,
     replaced |-> FALSE, hits |-> 0, others |-> FALSE, echo |-> "", echo_mode |-> "",
     temperature |-> None, target_temp |-> None, targetTemperature |-> None,
     hvac_mode |-> "", preset_mode |-> ""]

\* the temperature arguments a caller passes (None: the keyword is not passed)
TemperatureArgs == {None, PyInt(0), PyInt(21), PyFloat(215)}

\* the second temperature keyword a caller passes
SecondTemperatureArgs == {None, PyInt(0), PyInt(19)}

\* the hvac_mode arguments a caller passes
HvacModeArgs ==
    {HVACMode_OFF, HVACMode_HEAT, HVACMode_COOL, HVACMode_HEAT_COOL, HVACMode_AUTO,
     HVACMode_DRY}

\* the preset_mode arguments a caller passes
PresetArgs == {"Economy", "Comfort", "Party"}

-----------------------------------------------------------------------------
(* Construction *)

\* One entity per behaviour. async_setup_entry passes auto-mode 0; the other codes
\* the schema allows are explored on the configuration that registers operatingMode.
Init ==
    /\ type \in {"RoomControllerV2", "AcControl"}
    /\ stateAttribUuids \in StatesChoices(type)
    /\ stateAttribValues = <<>>
    /\ autoMode \in (IF "operatingMode" \in DOMAIN stateAttribUuids
                     THEN 0..MaxAutoMode ELSE {0})
    /\ modeList = (IF type = "RoomControllerV2" THEN TimerModes ELSE <<>>)
    /\ call = NoCall
    /\ fired = <<>>
    /\ scheduled = 0
    /\ raised = FALSE
    /\ delivered = <<>>
    /\ sensor = NoSensor
    /\ sensorCall = NoSensorCall

-----------------------------------------------------------------------------
(* Event handling *)

\* the registered channel ids an event carries
Hits(data) ==
    IF data.isdict THEN Range(stateAttribUuids) \cap DOMAIN data.map ELSE {}

\* the registered channel ids on which an event differs from the cache
Changes(data) ==
    {c \in Hits(data) : \/ c \notin DOMAIN stateAttribValues
                        \/ stateAttribValues[c] # data.map[c]}

\* the registered channel ids on which an event carries another value than the
\* one the cache holds
Replacements(data) == Changes(data) \cap DOMAIN stateAttribValues

\* the operating-mode codes of the commands the last operation fired
SentCodes ==
    {c \in -1..6 : \E i \in 1..Len(fired) :
        fired[i] = [uuid |-> uuidAction, value |-> "setOperatingMode/" \o IntStr(c)]}

\* the event is the Miniserver's echo of the operating-mode command fired last: it
\* carries the code of the command as the operatingMode value
Echo(data) ==
    /\ data.isdict
    /\ "operatingMode" \in DOMAIN stateAttribUuids
    /\ stateAttribUuids["operatingMode"] \in DOMAIN data.map
    /\ \E c \in SentCodes : data.map[stateAttribUuids["operatingMode"]] = PyInt(c)

\* the record of an event delivered to the entity
EventCall(data) ==
    [NoCall EXCEPT !.op = "event_handler", !.mapping = data.isdict,
                   !.hit = (Hits(data) # {}), !.changed = (Changes(data) # {}),
                   !.replaced = (Replacements(data) # {}),
                   !.hits = Cardinality(Hits(data)),
                   !.others = (data.isdict /\ DOMAIN data.map \ Hits(data) # {}),
                   !.echo = (IF Echo(data) THEN call.op ELSE ""),
                   !.echo_mode = (IF Echo(data) THEN call.hvac_mode ELSE "")]

\* history of the event stream: the last value carried per registered channel id
Deliver(data) ==
    delivered' = [c \in DOMAIN delivered \cup Hits(data) |->
                     IF c \in Hits(data) THEN data.map[c] ELSE delivered[c]]

\* faulty variant of RelevantKeys: every key of the event, registered or not
RelevantKeys_all(data) == DOMAIN data.map

\* set(self._stateAttribUuids.values()) & event.data.keys()
RelevantKeys(data) == Range(stateAttribUuids) \cap DOMAIN data.map

\* faulty variant of Dropped: the isinstance test is missing
Dropped_no_isinstance(data) == DOMAIN stateAttribUuids = {}

\* not self._stateAttribUuids or not isinstance(event.data, dict)
Dropped(data) == DOMAIN stateAttribUuids = {} \/ ~data.isdict

\* faulty variant of Store: setdefault, the first value of a channel id is kept
Store_setdefault(values, keys, data) ==
    [k \in DOMAIN values \cup keys |->
        IF k \in DOMAIN values THEN values[k] ELSE data.map[k]]

\* faulty variant of Store: every key of the event is written
Store_every_key(values, keys, data) ==
    [k \in DOMAIN values \cup DOMAIN data.map |->
        IF k \in DOMAIN data.map THEN data.map[k] ELSE values[k]]

\* for key in ...: self._stateAttribValues[key] = event.data[key]
Store(values, keys, data) ==
    [k \in DOMAIN values \cup keys |-> IF k \in keys THEN data.map[k] ELSE values[k]]

\* faulty variant of Notifications: the update is scheduled in the loop, per key
Notifications_per_key(data) == Cardinality(RelevantKeys(data))

\* update = True in the loop, one schedule_update_ha_state() after it
Notifications(data) == IF RelevantKeys(data) # {} THEN 1 ELSE 0

\* the handler of both classes; event.data.keys() raises on what is no mapping
HandleEvent(data) ==
    /\ call' = EventCall(data)
    /\ Deliver(data)
    /\ fired' = <<>>
    /\ IF Dropped(data)
       THEN /\ stateAttribValues' = stateAttribValues
            /\ scheduled' = 0
            /\ raised' = FALSE
       ELSE IF ~data.isdict
       THEN /\ stateAttribValues' = stateAttribValues
            /\ scheduled' = 0
            /\ raised' = TRUE
       ELSE /\ stateAttribValues' = Store(stateAttribValues, RelevantKeys(data), data)
            /\ scheduled' = Notifications(data)
            /\ raised' = FALSE
    /\ UNCHANGED <<type, stateAttribUuids, autoMode, modeList, sensor, sensorCall>>

RoomControllerV2_event_handler(data) ==
    /\ type = "RoomControllerV2"
    /\ HandleEvent(data)

AcControl_event_handler(data) ==
    /\ type = "AcControl"
    /\ HandleEvent(data)

\* self.get_state_value(name), the same code in both classes
get_state_value(name) ==
    IF name \notin DOMAIN stateAttribUuids THEN None
    ELSE IF stateAttribUuids[name] = "" THEN None
    ELSE IF stateAttribUuids[name] \in DOMAIN stateAttribValues
         THEN stateAttribValues[stateAttribUuids[name]]
         ELSE None

-----------------------------------------------------------------------------
(* Projected state of LoxoneRoomControllerV2 *)

\* dict.get(key, default) on a dict with int keys; an unhashable key raises
IntDictGet(dict, key, default) ==
    IF key.t = "list" THEN Raises
    ELSE IF IsNumber(key) /\ \E i \in 1..Len(dict) : Tenths(key) = 10 * dict[i][1]
    THEN dict[CHOOSE i \in 1..Len(dict) : Tenths(key) = 10 * dict[i][1]][2]
    ELSE default

\* dict.get(key) on a dict with HVACMode keys: [ok, n], not ok for None
ModeDictGet(dict, key) ==
    IF \E i \in 1..Len(dict) : dict[i][1] = key
    THEN Parsed(dict[CHOOSE i \in 1..Len(dict) : dict[i][1] = key][2])
    ELSE Failed

\* eval(text) on the texts of the model: the value of the expression, an exception
\* of class Exception (NameError, SyntaxError), or SystemExit, which is none
PyEval(text) ==
    CASE text = "[1, 1]" -> [kind |-> "value", v |-> PyList(2)]
      [] text = "[]" -> [kind |-> "value", v |-> PyList(0)]
      [] text = "{'a': 1}" -> [kind |-> "value", v |-> PyDict(6)]
      [] text = "__import__('sys').exit()" -> [kind |-> "SystemExit", v |-> None]
      [] AllDigits(text) -> [kind |-> "value", v |-> PyInt(NatVal(text))]
      [] OTHER -> [kind |-> "Exception", v |-> None]

\* SystemExit leaving a property: `except Exception` does not catch it
SystemExitValue == [t |-> "raise", n |-> 0, s |-> "SystemExit"]

\* isinstance(entries, list) and len(entries) > 0
IsNonEmptyList(entries) == entries.t = "list" /\ entries.n > 0

RoomControllerV2_is_overridden ==
    LET override_entries == get_state_value("overrideEntries")
    IN  IF ~Truthy(override_entries) THEN PyBool(FALSE)
        ELSE IF override_entries.t = "str"
        THEN CASE PyEval(override_entries.s).kind = "value" ->
                      PyBool(IsNonEmptyList(PyEval(override_entries.s).v))
               [] PyEval(override_entries.s).kind = "Exception" -> PyBool(FALSE)
               [] OTHER -> SystemExitValue
        ELSE PyBool(IsNonEmptyList(override_entries))

\* an exception that leaves a property
RaisedValue == [t |-> "raise", n |-> 0, s |-> "TypeError"]

\* faulty variant of current_temperature: the except clause is missing
RoomControllerV2_current_temperature_no_except ==
    LET val == get_state_value("tempActual")
    IN  IF val = None THEN None
        ELSE IF PyFloatOf(val).ok THEN PyFloat(PyFloatOf(val).n)
        ELSE RaisedValue

RoomControllerV2_current_temperature ==
    LET val == get_state_value("tempActual")
    IN  IF val = None THEN None
        ELSE IF PyFloatOf(val).ok THEN PyFloat(PyFloatOf(val).n)
        ELSE None

\* faulty variant of target_temperature: manualTemperature is read first
RoomControllerV2_target_temperature_manual_first ==
    LET val == get_state_value("tempTarget")
        manual == get_state_value("manualTemperature")
    IN  IF manual # None /\ PyFloatOf(manual).ok THEN PyFloat(PyFloatOf(manual).n)
        ELSE IF val # None /\ PyFloatOf(val).ok THEN PyFloat(PyFloatOf(val).n)
        ELSE None

RoomControllerV2_target_temperature ==
    LET val == get_state_value("tempTarget")
        manual == get_state_value("manualTemperature")
    IN  IF val # None /\ PyFloatOf(val).ok THEN PyFloat(PyFloatOf(val).n)
        ELSE IF manual # None /\ PyFloatOf(manual).ok THEN PyFloat(PyFloatOf(manual).n)
        ELSE None

\* faulty variant of hvac_mode: the default of the lookup is AUTO
RoomControllerV2_hvac_mode_default_auto ==
    IntDictGet(OPMODES, get_state_value("operatingMode"), HVACMode_AUTO)

RoomControllerV2_hvac_mode ==
    IntDictGet(OPMODES, get_state_value("operatingMode"), HVACMode_OFF)

-----------------------------------------------------------------------------
(* Projected state of LoxoneAcControl *)

AcControl_current_temperature ==
    LET val == get_state_value("temperature")
    IN  IF val = None THEN None
        ELSE IF PyFloatOf(val).ok THEN PyFloat(PyFloatOf(val).n)
        ELSE None

\* faulty variant of target_temperature: setpoint is also read when the
\* targetTemperature value is not a number
AcControl_target_temperature_fallback ==
    LET val == get_state_value("targetTemperature")
        alt == get_state_value("setpoint")
    IN  IF val # None /\ PyFloatOf(val).ok THEN PyFloat(PyFloatOf(val).n)
        ELSE IF alt # None /\ PyFloatOf(alt).ok THEN PyFloat(PyFloatOf(alt).n)
        ELSE None

AcControl_target_temperature ==
    LET val == get_state_value("targetTemperature")
        alt == get_state_value("setpoint")
    IN  IF val = None /\ alt # None
        THEN IF PyFloatOf(alt).ok THEN PyFloat(PyFloatOf(alt).n) ELSE None
        ELSE IF val = None THEN None
        ELSE IF PyFloatOf(val).ok THEN PyFloat(PyFloatOf(val).n)
        ELSE None

AcControl_hvac_mode ==
    IF InTuple(get_state_value("status"),
               << PyInt(1), PyStr("1"), PyBool(TRUE), PyStr("true"), PyStr("True"),
                  PyStr("on"), PyStr("ON") >>)
    THEN HVACMode_AUTO
    ELSE HVACMode_OFF

\* faulty variant of hvac_action: isCooling is tested first
AcControl_hvac_action_cooling_first ==
    IF InTuple(get_state_value("isCooling"),
               << PyInt(1), PyStr("1"), PyBool(TRUE), PyStr("true") >>)
    THEN HVACAction_COOLING
    ELSE IF InTuple(get_state_value("isHeating"),
                    << PyInt(1), PyStr("1"), PyBool(TRUE), PyStr("true") >>)
    THEN HVACAction_HEATING
    ELSE HVACAction_IDLE

AcControl_hvac_action ==
    IF InTuple(get_state_value("isHeating"),
               << PyInt(1), PyStr("1"), PyBool(TRUE), PyStr("true") >>)
    THEN HVACAction_HEATING
    ELSE IF InTuple(get_state_value("isCooling"),
                    << PyInt(1), PyStr("1"), PyBool(TRUE), PyStr("true") >>)
    THEN HVACAction_COOLING
    ELSE HVACAction_IDLE

-----------------------------------------------------------------------------
(* Commands of LoxoneRoomControllerV2 *)

\* faulty variant of Command: addressed to the first state uuid of the entity
Command_state_uuid(payload) == [uuid |-> "u1", value |-> payload]

\* dict(uuid=self.uuidAction, value=payload), fired on SENDDOMAIN
Command(payload) == [uuid |-> uuidAction, value |-> payload]

\* faulty variant of CommandFrame: a command forgets the cached values
CommandFrame_forget ==
    /\ stateAttribValues' = [c \in DOMAIN stateAttribValues |-> None]
    /\ UNCHANGED <<type, stateAttribUuids, autoMode, modeList, delivered, sensor,
                   sensorCall>>

\* a command leaves everything but the bus and the update request alone
CommandFrame ==
    UNCHANGED <<type, stateAttribUuids, stateAttribValues, autoMode, modeList,
                delivered, sensor, sensorCall>>

\* kwargs.get("temperature") or kwargs.get("target_temp")
RoomControllerV2_temp(temperature, target_temp) == PyOr(temperature, target_temp)

\* faulty variant of set_temperature_fires: the `temp is None` return is missing
RoomControllerV2_set_temperature_fires_no_return(temp, op) ==
    IF op # None /\ ~PyIntOf(op).ok THEN <<>>
    ELSE (IF op = None \/ PyIntOf(op).n <= 2
          THEN <<Command("setOperatingMode/4")>> ELSE <<>>)
         \o <<Command("setManualTemperature/" \o Str(temp))>>

\* faulty variant of set_temperature_fires: the temperature command is fired before
\* the operating mode is converted
RoomControllerV2_set_temperature_fires_temp_first(temp, op) ==
    IF temp = None THEN <<>>
    ELSE <<Command("setManualTemperature/" \o Str(temp))>>
         \o (IF op # None /\ ~PyIntOf(op).ok THEN <<>>
             ELSE IF op = None \/ PyIntOf(op).n <= 2
             THEN <<Command("setOperatingMode/4")>> ELSE <<>>)

\* the bus.fire calls of set_temperature up to its return or its except clause
RoomControllerV2_set_temperature_fires(temp, op) ==
    IF temp = None THEN <<>>
    ELSE IF op # None /\ ~PyIntOf(op).ok THEN <<>>
    ELSE (IF op = None \/ PyIntOf(op).n <= 2
          THEN <<Command("setOperatingMode/4")>> ELSE <<>>)
         \o <<Command("setManualTemperature/" \o Str(temp))>>

RoomControllerV2_set_temperature(temperature, target_temp) ==
    /\ type = "RoomControllerV2"
    /\ call' = [NoCall EXCEPT !.op = "set_temperature", !.temperature = temperature,
                              !.target_temp = target_temp]
    /\ fired' = RoomControllerV2_set_temperature_fires(
                    RoomControllerV2_temp(temperature, target_temp),
                    get_state_value("operatingMode"))
    /\ scheduled' = 0
    /\ raised' = FALSE
    /\ CommandFrame

\* faulty variant of target_mode: the shadowed first set_hvac_mode, which takes
\* the table value for AUTO too
RoomControllerV2_target_mode_table(hvac_mode) ==
    ModeDictGet(OPMODETOLOXONE, hvac_mode)

\* self._autoMode if hvac_mode == HVACMode.AUTO else OPMODETOLOXONE.get(hvac_mode)
\* faulty variant of target_mode: OFF is sent as the code 0, as turn_off sends it
RoomControllerV2_target_mode_off_zero(hvac_mode) ==
    IF hvac_mode = HVACMode_AUTO THEN Parsed(autoMode)
    ELSE IF hvac_mode = HVACMode_OFF THEN Parsed(0)
    ELSE ModeDictGet(OPMODETOLOXONE, hvac_mode)

RoomControllerV2_target_mode(hvac_mode) ==
    IF hvac_mode = HVACMode_AUTO THEN Parsed(autoMode)
    ELSE ModeDictGet(OPMODETOLOXONE, hvac_mode)

\* return [HVACMode.AUTO, HVACMode.HEAT_COOL, HVACMode.HEAT, HVACMode.COOL, HVACMode.OFF]
RoomControllerV2_hvac_modes ==
    {HVACMode_AUTO, HVACMode_HEAT_COOL, HVACMode_HEAT, HVACMode_COOL, HVACMode_OFF}

RoomControllerV2_set_hvac_mode(hvac_mode) ==
    /\ type = "RoomControllerV2"
    /\ call' = [NoCall EXCEPT !.op = "set_hvac_mode", !.hvac_mode = hvac_mode]
    /\ LET target_mode == RoomControllerV2_target_mode(hvac_mode)
       IN  IF ~target_mode.ok
           THEN fired' = <<>> /\ scheduled' = 0
           ELSE /\ fired' = <<Command("setOperatingMode/" \o IntStr(target_mode.n))>>
                /\ scheduled' = 1
    /\ raised' = FALSE
    /\ CommandFrame

\* faulty variant of mode_id: the last entry of the name is taken
RoomControllerV2_mode_id_last(preset_mode) ==
    IF \E i \in 1..Len(modeList) : modeList[i].name = preset_mode
    THEN LET last == CHOOSE i \in 1..Len(modeList) :
                        /\ modeList[i].name = preset_mode
                        /\ \A j \in (i + 1)..Len(modeList) : modeList[j].name # preset_mode
         IN  Parsed(modeList[last].id)
    ELSE Failed

\* next((mode["id"] for mode in self._modeList if mode.get("name") == preset_mode), None)
RoomControllerV2_mode_id(preset_mode) ==
    IF \E i \in 1..Len(modeList) : modeList[i].name = preset_mode
    THEN LET first == CHOOSE i \in 1..Len(modeList) :
                         /\ modeList[i].name = preset_mode
                         /\ \A j \in 1..(i - 1) : modeList[j].name # preset_mode
         IN  Parsed(modeList[first].id)
    ELSE Failed

RoomControllerV2_set_preset_mode(preset_mode) ==
    /\ type = "RoomControllerV2"
    /\ call' = [NoCall EXCEPT !.op = "set_preset_mode", !.preset_mode = preset_mode]
    /\ LET mode_id == RoomControllerV2_mode_id(preset_mode)
       IN  IF ~mode_id.ok
           THEN fired' = <<>> /\ scheduled' = 0
           ELSE /\ fired' = <<Command("override/" \o IntStr(mode_id.n))>>
                /\ scheduled' = 1
    /\ raised' = FALSE
    /\ CommandFrame

RoomControllerV2_turn_off ==
    /\ type = "RoomControllerV2"
    /\ call' = [NoCall EXCEPT !.op = "turn_off"]
    /\ fired' = <<Command("setOperatingMode/0")>>
    /\ scheduled' = 1
    /\ raised' = FALSE
    /\ CommandFrame

RoomControllerV2_turn_on ==
    /\ type = "RoomControllerV2"
    /\ call' = [NoCall EXCEPT !.op = "turn_on"]
    /\ fired' = <<Command("setOperatingMode/" \o IntStr(autoMode))>>
    /\ scheduled' = 1
    /\ raised' = FALSE
    /\ CommandFrame

-----------------------------------------------------------------------------
(* Commands of LoxoneAcControl *)

\* kwargs.get("targetTemperature") or kwargs.get("temperature")
AcControl_target(targetTemperature, temperature) == PyOr(targetTemperature, temperature)

AcControl_set_temperature(targetTemperature, temperature) ==
    /\ type = "AcControl"
    /\ call' = [NoCall EXCEPT !.op = "set_temperature", !.temperature = temperature,
                              !.targetTemperature = targetTemperature]
    /\ LET target == AcControl_target(targetTemperature, temperature)
       IN  fired' = IF target = None THEN <<>>
                    ELSE <<Command("setTarget/" \o Str(target))>>
    /\ scheduled' = 0
    /\ raised' = FALSE
    /\ CommandFrame

\* faulty variant of payload: the operating-mode code of the mode is sent
AcControl_payload_code(hvac_mode) ==
    IF hvac_mode = HVACMode_OFF THEN "off"
    ELSE IF ModeDictGet(OPMODETOLOXONE, hvac_mode).ok
    THEN IntStr(ModeDictGet(OPMODETOLOXONE, hvac_mode).n)
    ELSE "on"

\* "off" if hvac_mode == HVACMode.OFF else "on"
AcControl_payload(hvac_mode) == IF hvac_mode = HVACMode_OFF THEN "off" ELSE "on"

AcControl_set_hvac_mode(hvac_mode) ==
    /\ type = "AcControl"
    /\ call' = [NoCall EXCEPT !.op = "set_hvac_mode", !.hvac_mode = hvac_mode]
    /\ fired' = <<Command(AcControl_payload(hvac_mode))>>
    /\ scheduled' = 1
    /\ raised' = FALSE
    /\ CommandFrame

-----------------------------------------------------------------------------

Next ==
    \/ \E data \in Events : RoomControllerV2_event_handler(data)
    \/ \E data \in Events : AcControl_event_handler(data)
    \/ \E temperature \in TemperatureArgs, target_temp \in SecondTemperatureArgs :
          RoomControllerV2_set_temperature(temperature, target_temp)
    \/ \E hvac_mode \in HvacModeArgs : RoomControllerV2_set_hvac_mode(hvac_mode)
    \/ \E preset_mode \in PresetArgs : RoomControllerV2_set_preset_mode(preset_mode)
    \/ RoomControllerV2_turn_off
    \/ RoomControllerV2_turn_on
    \/ \E targetTemperature \in SecondTemperatureArgs, temperature \in TemperatureArgs :
          AcControl_set_temperature(targetTemperature, temperature)
    \/ \E hvac_mode \in HvacModeArgs : AcControl_set_hvac_mode(hvac_mode)

Spec == Init /\ [][Next]_vars

-----------------------------------------------------------------------------
(* Text status entities: LoxoneTextStatusSensor of sensor.py and LoxoneTextStatus *)
(* of text_status.py                                                             *)

STATE_UNKNOWN == PyStr("unknown")

TextChannel == "t1"

IconChannel == "i1"

\* the values the Miniserver sends on the text channel
TextPayloads == {PyStr("Heating"), PyStr("Idle"), PyInt(5), PyDict(2)}

\* the values the Miniserver sends on the icon channel
IconPayloads ==
    {PyStr("{\"icon\":\"flame\",\"color\":\"red\"}"),
     PyStr("radiator;blue"),
     PyStr("{\"icon\":"),
     PyStr("{\"icon\":5}"),
     PyStr("[1]"),
     PyStr("\"{\"icon\":\"Icons/Radiator.svg\",\"color\":\"blue\"}\""),
     PyStr("{\"color\":\"red\"}"),
     PyDict(1),
     PyInt(5)}

\* the event that carries the given values (Missing: the channel is not in it)
SensorEventOf(text, icon) ==
    LET channels == (IF text # Missing THEN {TextChannel} ELSE {})
                        \cup (IF icon # Missing THEN {IconChannel} ELSE {})
    IN  [c \in channels |-> IF c = TextChannel THEN text ELSE icon]

SensorEvents ==
    {SensorEventOf(text, icon) : text \in TextPayloads \cup {Missing},
                                 icon \in IconPayloads \cup {Missing}}
        \cup {(OtherChannel :> PyInt(7))}

\* the value an event carries on a channel
Carried(data, channel) == IF channel \in DOMAIN data THEN data[channel] ELSE Missing

InitSensor ==
    /\ type = "TextState"
    /\ stateAttribUuids = <<>>
    /\ stateAttribValues = <<>>
    /\ autoMode = 0
    /\ modeList = <<>>
    /\ call = NoCall
    /\ fired = <<>>
    /\ scheduled = 0
    /\ raised = FALSE
    /\ delivered = <<>>
    /\ \E class \in {"LoxoneTextStatusSensor", "LoxoneTextStatus"},
          state_uuid_icon \in {IconChannel, ""} :
          \/ sensor = [class |-> class,
                    state_uuid_text |-> TextChannel,
                    state_uuid_icon |-> state_uuid_icon,
                    state |-> IF class = "LoxoneTextStatusSensor"
                              THEN STATE_UNKNOWN ELSE None,
                    icon |-> None,
                    color |-> None,
                    native_value |-> None]
          \/ sensor = [NoSensor EXCEPT !.class = "LoxoneCustomSensor"]
    /\ sensorCall = NoSensorCall

SensorFrame ==
    UNCHANGED <<type, stateAttribUuids, stateAttribValues, autoMode, modeList,
                call, fired, delivered>>

\* json.loads(text) on the texts of the model: the decoded value, or JSONDecodeError
JsonLoads(text) ==
    CASE text = "{\"icon\":\"flame\",\"color\":\"red\"}" -> [ok |-> TRUE, v |-> PyDict(1)]
      [] text = "{\"icon\":5}" -> [ok |-> TRUE, v |-> PyDict(3)]
      [] text = "{\"icon\":\"Icons/Radiator.svg\",\"color\":\"blue\"}" ->
             [ok |-> TRUE, v |-> PyDict(4)]
      [] text = "{\"color\":\"red\"}" -> [ok |-> TRUE, v |-> PyDict(5)]
      [] text = "[1]" -> [ok |-> TRUE, v |-> PyList(1)]
      [] AllDigits(text) -> [ok |-> TRUE, v |-> PyInt(NatVal(text))]
      [] OTHER -> [ok |-> FALSE, v |-> None]

icon_mapping ==
    ("radiator" :> "mdi:radiator") @@ ("flame" :> "mdi:fire")
        @@ ("snowflake" :> "mdi:snowflake") @@ ("thermometer" :> "mdi:thermometer")
        @@ ("water" :> "mdi:water") @@ ("fan" :> "mdi:fan")
        @@ ("power" :> "mdi:power-plug") @@ ("light" :> "mdi:lightbulb")
        @@ ("window" :> "mdi:window-open") @@ ("door" :> "mdi:door")
        @@ ("information" :> "mdi:information") @@ ("warning" :> "mdi:alert")
        @@ ("error" :> "mdi:alert-circle") @@ ("success" :> "mdi:check-circle")
        @@ ("settings" :> "mdi:cog")

\* the outcome of _convert_loxone_icon: the icon, or AttributeError for a value
\* that is no text and so has no split
TextStatusSensor_convert_loxone_icon(loxone_icon) ==
    IF ~Truthy(loxone_icon) THEN [ok |-> TRUE, icon |-> PyStr("mdi:text")]
    ELSE IF loxone_icon.t # "str" THEN [ok |-> FALSE, icon |-> None]
    ELSE LET parts == Split(loxone_icon.s, "/")
             icon_name == Lower(Remove(parts[Len(parts)], ".svg"))
         IN  [ok |-> TRUE,
              icon |-> PyStr(IF icon_name \in DOMAIN icon_mapping
                             THEN icon_mapping[icon_name] ELSE "mdi:text")]

\* the outcome of _parse_icon_state: (icon, color), or the exception that leaves it
TextStatusSensor_parse_icon_state(data) ==
    LET default == [ok |-> TRUE, icon |-> PyStr("mdi:text"), color |-> None]
    IN  IF data.t # "str" THEN default
        ELSE LET parsed == JsonLoads(Strip(data.s, "\""))
             IN  IF ~parsed.ok THEN default
                 ELSE IF parsed.v.t # "dict" THEN default
                 ELSE LET converted == TextStatusSensor_convert_loxone_icon(
                                           DictGet(parsed.v, "icon", PyStr("mdi:text")))
                      IN  [ok |-> converted.ok,
                           icon |-> converted.icon,
                           color |-> DictGet(parsed.v, "color", None)]

TextStatusSensor_event_handler(data) ==
    /\ sensor.class = "LoxoneTextStatusSensor"
    /\ sensorCall' = [op |-> "event_handler",
                      text |-> Carried(data, sensor.state_uuid_text),
                      icon |-> IF sensor.state_uuid_icon = "" THEN Missing
                               ELSE Carried(data, sensor.state_uuid_icon),
                      value |-> Missing]
    /\ LET text == Carried(data, sensor.state_uuid_text)
           text_update == text.t = "str" /\ ~PyEq(text, sensor.state)
           state == IF text_update THEN text ELSE sensor.state
           icon_hit == /\ sensor.state_uuid_icon # ""
                       /\ sensor.state_uuid_icon \in DOMAIN data
           new == TextStatusSensor_parse_icon_state(data[sensor.state_uuid_icon])
       IN  IF DOMAIN data = {}
           THEN sensor' = sensor /\ scheduled' = 0 /\ raised' = FALSE
           ELSE IF ~icon_hit
           THEN /\ sensor' = [sensor EXCEPT !.state = state]
                /\ scheduled' = (IF text_update THEN 1 ELSE 0)
                /\ raised' = FALSE
           ELSE IF ~new.ok
           THEN /\ sensor' = [sensor EXCEPT !.state = state]
                /\ scheduled' = 0
                /\ raised' = TRUE
           ELSE IF ~PyEq(new.icon, sensor.icon) \/ ~PyEq(new.color, sensor.color)
           THEN /\ sensor' = [sensor EXCEPT !.state = state, !.icon = new.icon,
                                           !.color = new.color]
                /\ scheduled' = 1
                /\ raised' = FALSE
           ELSE /\ sensor' = [sensor EXCEPT !.state = state]
                /\ scheduled' = (IF text_update THEN 1 ELSE 0)
                /\ raised' = FALSE
    /\ SensorFrame

TextStatus_parse_text_state(data) ==
    IF data.t = "dict" THEN DictGet(data, "text", PyStr("Unknown"))
    ELSE IF data.t = "str" THEN data
    ELSE IF data # None THEN PyStr(Str(data)) ELSE PyStr("Unknown")

TextStatus_parse_icon_state(data) ==
    IF data.t = "dict"
    THEN [icon |-> DictGet(data, "icon", PyStr("mdi:text")),
          color |-> DictGet(data, "color", None)]
    ELSE IF data.t = "str" /\ IndexOf(data.s, ";") # 0
    THEN LET parts == Split(data.s, ";")
         IN  [icon |-> IF parts[1] # "" THEN PyStr(parts[1]) ELSE PyStr("mdi:text"),
              color |-> IF Len(parts) > 1 THEN PyStr(parts[2]) ELSE None]
    ELSE [icon |-> PyStr("mdi:text"), color |-> None]

TextStatus_async_update_text_callback(event) ==
    /\ sensor.class = "LoxoneTextStatus"
    /\ sensorCall' = [op |-> "async_update_text_callback", text |-> event,
                      icon |-> Missing, value |-> Missing]
    /\ LET new_state == TextStatus_parse_text_state(event)
       IN  IF event = None
           THEN sensor' = sensor /\ scheduled' = 0
           ELSE IF ~PyEq(new_state, sensor.state)
           THEN sensor' = [sensor EXCEPT !.state = new_state] /\ scheduled' = 1
           ELSE sensor' = sensor /\ scheduled' = 0
    /\ raised' = FALSE
    /\ SensorFrame

TextStatus_async_update_icon_callback(event) ==
    /\ sensor.class = "LoxoneTextStatus"
    /\ sensor.state_uuid_icon # ""
    /\ sensorCall' = [op |-> "async_update_icon_callback", text |-> Missing,
                      icon |-> event, value |-> Missing]
    /\ LET new == TextStatus_parse_icon_state(event)
       IN  IF event = None
           THEN sensor' = sensor /\ scheduled' = 0
           ELSE IF ~PyEq(new.icon, sensor.icon) \/ ~PyEq(new.color, sensor.color)
           THEN /\ sensor' = [sensor EXCEPT !.icon = new.icon, !.color = new.color]
                /\ scheduled' = 1
           ELSE sensor' = sensor /\ scheduled' = 0
    /\ raised' = FALSE
    /\ SensorFrame

\* the values the Miniserver sends on the channel of a custom sensor: scalars, a text
\* of 270 characters, lists whose text has 0, 6, 255 and 258 characters, dicts
CustomPayloads ==
    {PyInt(5), PyFloat(215), PyStr("abc"), PyStr(Str(PyList(90))), None,
     PyList(0), PyList(2), PyList(85), PyList(86), PyDict(1), PyDict(6)}

CustomEvents ==
    {(uuidAction :> value) : value \in CustomPayloads}
        \cup {(uuidAction :> value) @@ (OtherChannel :> PyInt(7)) : value \in CustomPayloads}
        \cup {(OtherChannel :> PyInt(7)), <<>>}

\* faulty variant of native_value: the text of a list or dict is not cut
CustomSensor_native_value_uncut(data) ==
    IF data.t \in {"list", "dict"} THEN PyStr(Str(data)) ELSE data

\* the value event_handler stores for the value the event carries
CustomSensor_native_value(data) ==
    IF data.t \in {"list", "dict"}
    THEN IF Len(Str(data)) >= 255
         THEN PyStr(SubSeq(Str(data), 1, 255))
         ELSE PyStr(Str(data))
    ELSE data

CustomSensor_event_handler(data) ==
    /\ sensor.class = "LoxoneCustomSensor"
    /\ sensorCall' = [op |-> "event_handler", text |-> Missing, icon |-> Missing,
                      value |-> Carried(data, uuidAction)]
    /\ IF uuidAction \in DOMAIN data
       THEN /\ sensor' = [sensor EXCEPT
                             !.native_value = CustomSensor_native_value(data[uuidAction])]
            /\ scheduled' = 1
       ELSE /\ sensor' = sensor
            /\ scheduled' = 0
    /\ raised' = FALSE
    /\ SensorFrame

NextSensor ==
    \/ \E data \in SensorEvents : TextStatusSensor_event_handler(data)
    \/ \E event \in TextPayloads \cup {None} :
          TextStatus_async_update_text_callback(event)
    \/ \E event \in IconPayloads \cup {None} :
          TextStatus_async_update_icon_callback(event)
    \/ \E data \in CustomEvents : CustomSensor_event_handler(data)

SpecSensor == InitSensor /\ [][NextSensor]_vars

-----------------------------------------------------------------------------
(* Properties *)

IsRoomController == type = "RoomControllerV2"

IsAcControl == type = "AcControl"

\* the cached operatingMode is the number `code`
ModeCodeIs(code) ==
    /\ IsNumber(get_state_value("operatingMode"))
    /\ Tenths(get_state_value("operatingMode")) = 10 * code

\* the temperature value a caller of set_temperature supplied, None if none
SuppliedTemperature ==
    IF call.temperature # None THEN call.temperature ELSE call.target_temp

\* C1: RoomController set_temperature with a temperature value supplied emits
\* setOperatingMode/4 and then setManualTemperature/<value>, and nothing else,
\* when the cached operatingMode code is <= 2, and emits setManualTemperature/<value>
\* alone when the cached code is 4.
C1_SetTemperatureCommands ==
    (IsRoomController /\ call.op = "set_temperature" /\ SuppliedTemperature # None)
    => /\ (\E code \in -1..2 : ModeCodeIs(code))
            => fired = << Command("setOperatingMode/4"),
                          Command("setManualTemperature/" \o Str(SuppliedTemperature)) >>
       /\ ModeCodeIs(4)
            => fired = << Command("setManualTemperature/" \o Str(SuppliedTemperature)) >>

\* C2: an event whose registered channel ids all carry the value the cache already
\* holds schedules no state update.
C2_SameValueNoNotification ==
    (call.op = "event_handler" /\ call.hit /\ ~call.changed) => scheduled = 0

\* C3: an event mapping whose keys are disjoint from the registered channel ids, and
\* any event delivered to an entity with an empty identifier map, schedules no state
\* update and leaves the value cache unchanged.
C3_UnrelatedEventIgnored ==
    [][ (/\ call'.op = "event_handler"
         /\ \/ call'.mapping /\ ~call'.hit
            \/ DOMAIN stateAttribUuids = {})
        => (scheduled' = 0 /\ stateAttribValues' = stateAttribValues) ]_vars

C3_Witness ==
    /\ call.op = "event_handler"
    /\ call.mapping
    /\ ~call.hit
    /\ DOMAIN stateAttribUuids # {}
    /\ DOMAIN stateAttribValues # {}
    /\ scheduled = 0

\* C4: an event whose payload is no mapping is dropped: the cache is not written, no
\* state update is scheduled, nothing is raised.
C4_NonMappingDropped ==
    [][ (call'.op = "event_handler" /\ ~call'.mapping)
        => (stateAttribValues' = stateAttribValues /\ scheduled' = 0 /\ ~raised') ]_vars

C4_Witness ==
    /\ call.op = "event_handler"
    /\ ~call.mapping
    /\ DOMAIN stateAttribUuids # {}
    /\ DOMAIN stateAttribValues # {}
    /\ scheduled = 0
    /\ ~raised

\* C5: the cached value of every registered channel id is the value of the most
\* recent event that carried the id, and a registered id no event carried yet reads
\* as absent.
C5_LastWriteWins ==
    /\ \A c \in Range(stateAttribUuids) :
          IF c \in DOMAIN delivered
          THEN c \in DOMAIN stateAttribValues /\ stateAttribValues[c] = delivered[c]
          ELSE c \notin DOMAIN stateAttribValues
    /\ \A nm \in DOMAIN stateAttribUuids :
          get_state_value(nm) = IF stateAttribUuids[nm] \in DOMAIN delivered
                                THEN delivered[stateAttribUuids[nm]]
                                ELSE None

C5_Witness ==
    /\ call.op = "event_handler"
    /\ call.replaced
    /\ \E c \in Range(stateAttribUuids) :
          c \in DOMAIN delivered /\ delivered[c] # None
    /\ \E c \in Range(stateAttribUuids) : c \notin DOMAIN delivered

\* C6: RoomController hvac_mode is OFF for the operatingMode code -1, AUTO for 0, 1
\* and 2, HEAT_COOL for 3, HEAT for 4, COOL for 5, and OFF for every other code and
\* for a missing code.
C6_HvacModeTable ==
    IsRoomController =>
        /\ ModeCodeIs(-1) => RoomControllerV2_hvac_mode = HVACMode_OFF
        /\ (ModeCodeIs(0) \/ ModeCodeIs(1) \/ ModeCodeIs(2))
              => RoomControllerV2_hvac_mode = HVACMode_AUTO
        /\ ModeCodeIs(3) => RoomControllerV2_hvac_mode = HVACMode_HEAT_COOL
        /\ ModeCodeIs(4) => RoomControllerV2_hvac_mode = HVACMode_HEAT
        /\ ModeCodeIs(5) => RoomControllerV2_hvac_mode = HVACMode_COOL
        /\ (/\ get_state_value("operatingMode").t # "list"
            /\ \A code \in -1..5 : ~ModeCodeIs(code))
              => RoomControllerV2_hvac_mode = HVACMode_OFF

C6_Witness ==
    /\ IsRoomController
    /\ get_state_value("operatingMode") = PyInt(4)
    /\ RoomControllerV2_hvac_mode = HVACMode_HEAT

\* the channel value is present and float() accepts it
Parseable(v) == v # None /\ PyFloatOf(v).ok

\* C7: RoomController target_temperature is the tempTarget value whenever that is
\* present and parseable, else the manualTemperature value when that is present and
\* parseable, else absent.
C7_TargetTemperaturePreference ==
    IsRoomController =>
        LET tempTarget == get_state_value("tempTarget")
            manualTemperature == get_state_value("manualTemperature")
        IN  /\ Parseable(tempTarget)
                => RoomControllerV2_target_temperature = PyFloat(PyFloatOf(tempTarget).n)
            /\ (~Parseable(tempTarget) /\ Parseable(manualTemperature))
                => RoomControllerV2_target_temperature
                       = PyFloat(PyFloatOf(manualTemperature).n)
            /\ (~Parseable(tempTarget) /\ ~Parseable(manualTemperature))
                => RoomControllerV2_target_temperature = None

C7_Witness ==
    /\ IsRoomController
    /\ get_state_value("tempTarget") = PyFloat(215)
    /\ get_state_value("manualTemperature") = PyFloat(190)
    /\ RoomControllerV2_target_temperature = PyFloat(215)

\* C8: RoomController set_hvac_mode emits setOperatingMode/<configured auto-mode
\* code> for AUTO, setOperatingMode/3, /4, /5, /-1 for HEAT_COOL, HEAT, COOL, OFF,
\* and no command for an unsupported mode.
C8_SetHvacModeCommand ==
    (IsRoomController /\ call.op = "set_hvac_mode") =>
        fired = CASE call.hvac_mode = HVACMode_AUTO /\ autoMode = 0 ->
                        <<Command("setOperatingMode/0")>>
                  [] call.hvac_mode = HVACMode_AUTO /\ autoMode = 1 ->
                        <<Command("setOperatingMode/1")>>
                  [] call.hvac_mode = HVACMode_AUTO /\ autoMode = 2 ->
                        <<Command("setOperatingMode/2")>>
                  [] call.hvac_mode = HVACMode_HEAT_COOL -> <<Command("setOperatingMode/3")>>
                  [] call.hvac_mode = HVACMode_HEAT -> <<Command("setOperatingMode/4")>>
                  [] call.hvac_mode = HVACMode_COOL -> <<Command("setOperatingMode/5")>>
                  [] call.hvac_mode = HVACMode_OFF -> <<Command("setOperatingMode/-1")>>
                  [] OTHER -> <<>>

C8_Witness ==
    /\ IsRoomController
    /\ call.op = "set_hvac_mode"
    /\ call.hvac_mode = HVACMode_AUTO
    /\ autoMode = 2
    /\ fired = <<Command("setOperatingMode/2")>>

\* the cached flag is set: 1, "1", true or "true"
FlagSet(name) ==
    \/ IsNumber(get_state_value(name)) /\ Tenths(get_state_value(name)) = 10
    \/ get_state_value(name) \in {PyStr("1"), PyStr("true")}

\* C9: AcControl hvac_action is HEATING whenever isHeating is set, also when
\* isCooling is set too, COOLING when isHeating is not set and isCooling is, and
\* IDLE when neither is set.
C9_HvacActionPriority ==
    IsAcControl =>
        /\ FlagSet("isHeating") => AcControl_hvac_action = HVACAction_HEATING
        /\ (~FlagSet("isHeating") /\ FlagSet("isCooling"))
              => AcControl_hvac_action = HVACAction_COOLING
        /\ (~FlagSet("isHeating") /\ ~FlagSet("isCooling"))
              => AcControl_hvac_action = HVACAction_IDLE

C9_Witness ==
    /\ IsAcControl
    /\ get_state_value("isHeating") = PyBool(TRUE)
    /\ get_state_value("isCooling") = PyBool(TRUE)
    /\ AcControl_hvac_action = HVACAction_HEATING

\* the status is 1, "1", true, or "true" / "on" in any casing
StatusOn(v) ==
    \/ IsNumber(v) /\ Tenths(v) = 10
    \/ v = PyStr("1")
    \/ v.t = "str" /\ Lower(v.s) \in {"true", "on"}

\* C10: AcControl hvac_mode is AUTO iff the cached status is 1, "1", true, or the
\* text "true" / "on" in any casing, and OFF for every other or missing status.
C10_StatusCaseInsensitive ==
    IsAcControl =>
        AcControl_hvac_mode = (IF StatusOn(get_state_value("status"))
                               THEN HVACMode_AUTO ELSE HVACMode_OFF)


\* C11: RoomController set_temperature called without a temperature value emits no
\* command, neither the mode switch nor the temperature command, and does not raise.
C11_NoTemperatureNoCommand ==
    (/\ IsRoomController
     /\ call.op = "set_temperature"
     /\ call.temperature = None
     /\ call.target_temp = None)
    => (fired = <<>> /\ ~raised)

C11_Witness ==
    /\ IsRoomController
    /\ call.op = "set_temperature"
    /\ call.temperature = None
    /\ call.target_temp = None
    /\ ModeCodeIs(1)
    /\ fired = <<>>

\* the payloads of the commands the last operation fired
FiredPayloads == {fired[i].value : i \in 1..Len(fired)}

\* C12: RoomController set_temperature emits the switch to manual HEAT,
\* setOperatingMode/4, only when the cached operatingMode is an AUTO code (0, 1, 2);
\* with the cached code -1 (OFF) it does not.
C12_ModeSwitchOnlyInAuto ==
    (/\ IsRoomController
     /\ call.op = "set_temperature"
     /\ get_state_value("operatingMode") # None
     /\ "setOperatingMode/4" \in FiredPayloads)
    => /\ PyIntOf(get_state_value("operatingMode")).ok
       /\ PyIntOf(get_state_value("operatingMode")).n \in 0..2

\* C13: RoomController set_preset_mode emits exactly one command, override/<id> with
\* the id of the first entry of the preset list whose name is the requested preset,
\* and no command when no entry has that name.
C13_PresetCommand ==
    (IsRoomController /\ call.op = "set_preset_mode") =>
        IF \E i \in 1..Len(modeList) : modeList[i].name = call.preset_mode
        THEN \E i \in 1..Len(modeList) :
                /\ modeList[i].name = call.preset_mode
                /\ \A j \in 1..Len(modeList) :
                      modeList[j].name = call.preset_mode => i <= j
                /\ fired = <<Command("override/" \o IntStr(modeList[i].id))>>
        ELSE fired = <<>>

C13_Witness ==
    /\ IsRoomController
    /\ call.op = "set_preset_mode"
    /\ call.preset_mode = "Comfort"
    /\ fired = <<[uuid |-> uuidAction, value |-> "override/1"]>>

StartsWith(text, prefix) ==
    Len(text) >= Len(prefix) /\ SubSeq(text, 1, Len(prefix)) = prefix

After(text, prefix) == SubSeq(text, Len(prefix) + 1, Len(text))

\* the fixed vocabulary of command strings
InVocabulary(payload) ==
    \/ payload \in {"on", "off"}
    \/ StartsWith(payload, "setOperatingMode/")
          /\ IsIntText(After(payload, "setOperatingMode/"))
    \/ StartsWith(payload, "setManualTemperature/")
          /\ Len(After(payload, "setManualTemperature/")) > 0
    \/ StartsWith(payload, "override/") /\ Len(After(payload, "override/")) > 0
    \/ StartsWith(payload, "setTarget/") /\ Len(After(payload, "setTarget/")) > 0

\* C14: every command a RoomController or AcControl fires is a string of the
\* vocabulary setOperatingMode/<int>, setManualTemperature/<value>, override/<id>,
\* setTarget/<value>, on, off, and is addressed to the entity's own action identifier.
C14_CommandVocabulary ==
    \A i \in 1..Len(fired) :
        fired[i].uuid = uuidAction /\ InVocabulary(fired[i].value)

C14_Witness ==
    /\ IsRoomController
    /\ call.op = "set_temperature"
    /\ Len(fired) = 2
    /\ fired[1].value = "setOperatingMode/4"
    /\ fired[2].value = "setManualTemperature/21.5"

\* C15: a command call whose encoding fails, such as set_temperature while the cached
\* operatingMode does not convert to an integer, fires no command and does not raise.
C15_FailedEncodingFiresNothing ==
    (/\ IsRoomController
     /\ call.op = "set_temperature"
     /\ get_state_value("operatingMode") # None
     /\ ~PyIntOf(get_state_value("operatingMode")).ok)
    => (fired = <<>> /\ ~raised)

C15_Witness ==
    /\ IsRoomController
    /\ call.op = "set_temperature"
    /\ call.temperature = PyInt(21)
    /\ get_state_value("operatingMode") = PyStr("abc")
    /\ fired = <<>>
    /\ ~raised


\* C20: current_temperature of a climate entity is the numeric value of the cached
\* temperature channel (tempActual, temperature) whenever that parses as a number, and
\* absent, never an exception, when the value is missing or not numeric.
C20_CurrentTemperature ==
    /\ IsRoomController =>
          RoomControllerV2_current_temperature =
              (IF Parseable(get_state_value("tempActual"))
               THEN PyFloat(PyFloatOf(get_state_value("tempActual")).n)
               ELSE None)
    /\ IsAcControl =>
          AcControl_current_temperature =
              (IF Parseable(get_state_value("temperature"))
               THEN PyFloat(PyFloatOf(get_state_value("temperature")).n)
               ELSE None)

C20_Witness ==
    /\ IsRoomController
    /\ get_state_value("tempActual") = PyStr("abc")
    /\ RoomControllerV2_current_temperature = None


\* the text is a list literal with at least one element
ListTextLength(text) ==
    CASE text = "[1, 1]" -> 2
      [] OTHER -> 0

\* C19: RoomController is_overridden is true iff the cached overrideEntries value is
\* a non-empty list or text that parses to one; an absent value, an empty list, a
\* decode result that is no list and malformed text give false, and nothing is raised.
C19_IsOverriddenFailsClosed ==
    IsRoomController =>
        LET override_entries == get_state_value("overrideEntries")
        IN  RoomControllerV2_is_overridden =
                PyBool(\/ override_entries.t = "list" /\ override_entries.n > 0
                       \/ override_entries.t = "str"
                             /\ ListTextLength(override_entries.s) > 0)


\* the text status entity has just handled a value on its icon channel
IconHandled ==
    /\ sensorCall.op \in {"event_handler", "async_update_icon_callback"}
    /\ sensorCall.icon \notin {Missing, None}

\* C16: a text status entity that has handled the icon payload
\* {"icon":"flame","color":"red"} holds the fire icon and the color red; one that has
\* handled the semicolon payload "radiator;blue" holds the radiator icon and the color
\* blue; one that has handled malformed JSON holds the default text icon and no color.
C16_IconDecoding ==
    IconHandled =>
        /\ sensorCall.icon = PyStr("{\"icon\":\"flame\",\"color\":\"red\"}")
              => sensor.icon = PyStr("mdi:fire") /\ sensor.color = PyStr("red")
        /\ sensorCall.icon = PyStr("radiator;blue")
              => sensor.icon = PyStr("mdi:radiator") /\ sensor.color = PyStr("blue")
        /\ sensorCall.icon = PyStr("{\"icon\":")
              => sensor.icon = PyStr("mdi:text") /\ sensor.color = None

\* the icons of the static lookup table, and the default text icon
TableIcons == {PyStr(icon_mapping[name]) : name \in DOMAIN icon_mapping}
                  \cup {PyStr("mdi:text")}

\* C17: whatever value a LoxoneTextStatusSensor is sent on its icon channel, the
\* handler does not raise and the stored icon is the default text icon or an icon of
\* the lookup table.
C17_DecodingNeverRaises ==
    (sensor.class = "LoxoneTextStatusSensor" /\ IconHandled)
        => ~raised /\ sensor.icon \in TableIcons


\* C21: AcControl set_hvac_mode emits exactly one command, the string off when the
\* requested mode is OFF and the string on for every other requested mode; it emits
\* no operating-mode code.
C21_AcBinaryCommand ==
    (IsAcControl /\ call.op = "set_hvac_mode") =>
        /\ Len(fired) = 1
        /\ fired[1].uuid = uuidAction
        /\ fired[1].value = (IF call.hvac_mode = HVACMode_OFF THEN "off" ELSE "on")
        /\ ~StartsWith(fired[1].value, "setOperatingMode/")
        /\ ~AllDigits(Unsigned(fired[1].value))

C21_Witness ==
    /\ IsAcControl
    /\ call.op = "set_hvac_mode"
    /\ call.hvac_mode = HVACMode_COOL
    /\ fired = <<[uuid |-> uuidAction, value |-> "on"]>>


\* C22: a custom sensor that has handled an event with a value on its channel holds,
\* for a list or a dict, the first 255 characters of the value's text (the whole text
\* when it is shorter), and for any other value the value itself.
C22_CustomSensorStoredValue ==
    (/\ sensor.class = "LoxoneCustomSensor"
     /\ sensorCall.op = "event_handler"
     /\ sensorCall.value # Missing)
    => IF sensorCall.value.t \in {"list", "dict"}
       THEN /\ sensor.native_value.t = "str"
            /\ Len(sensor.native_value.s) <= 255
            /\ \/ sensor.native_value.s = Str(sensorCall.value)
               \/ /\ Len(sensor.native_value.s) = 255
                  /\ sensor.native_value.s = SubSeq(Str(sensorCall.value), 1, 255)
       ELSE sensor.native_value = sensorCall.value

C22_Witness ==
    /\ sensor.class = "LoxoneCustomSensor"
    /\ sensorCall.op = "event_handler"
    /\ sensorCall.value = PyList(86)
    /\ Len(Str(sensorCall.value)) = 258
    /\ Len(sensor.native_value.s) = 255
    /\ scheduled = 1


\* the step is the handling of an event or a channel value by a text status entity
TextStatusStep ==
    /\ sensor.class \in {"LoxoneTextStatusSensor", "LoxoneTextStatus"}
    /\ sensorCall'.op \in {"event_handler", "async_update_text_callback",
                           "async_update_icon_callback"}

\* C23: a text status entity schedules a state update for an event iff the event
\* changes its stored text or its stored (icon, color) pair, so that an event that
\* repeats the stored text and icon schedules nothing; a value on the text channel
\* that is no text leaves the stored text unchanged.
C23_UpdateIffChanged ==
    [][ TextStatusStep =>
            /\ (scheduled' = 1) <=> (<<sensor.state, sensor.icon, sensor.color>>'
                                        # <<sensor.state, sensor.icon, sensor.color>>)
            /\ scheduled' \in {0, 1}
            /\ (sensorCall'.text # Missing /\ sensorCall'.text.t # "str")
                  => sensor.state' = sensor.state ]_vars


\* C24: when a climate entity has handled an event, every registered channel the
\* event carried holds the event's value in the cache in the state in which the
\* notification is scheduled, and at most one notification is scheduled, however
\* many of the entity's channels the event carried.
C24_BatchAtomic ==
    [][ call'.op = "event_handler" =>
            /\ scheduled' <= 1
            /\ call'.hits >= 1 => scheduled' = 1
            /\ \A c \in Range(stateAttribUuids) :
                  (/\ c \in DOMAIN delivered'
                   /\ c \in DOMAIN delivered => delivered'[c] # delivered[c])
                  => /\ c \in DOMAIN stateAttribValues'
                     /\ stateAttribValues'[c] = delivered'[c] ]_vars

C24_Witness ==
    /\ call.op = "event_handler"
    /\ call.hits = 2
    /\ call.replaced
    /\ scheduled = 1
    /\ \A c \in Range(stateAttribUuids) :
          c \in DOMAIN stateAttribValues /\ stateAttribValues[c] = delivered[c]


\* C29: AcControl target_temperature is decided by targetTemperature alone when that
\* value is present: its number, or absent when it is no number, whatever setpoint
\* holds; when targetTemperature is absent it is the number of setpoint, or absent
\* when setpoint is missing or no number.
C29_AcTargetTemperature ==
    IsAcControl =>
        LET targetTemperature == get_state_value("targetTemperature")
            setpoint == get_state_value("setpoint")
        IN  /\ (targetTemperature # None /\ PyFloatOf(targetTemperature).ok)
                => AcControl_target_temperature
                       = PyFloat(PyFloatOf(targetTemperature).n)
            /\ (targetTemperature # None /\ ~PyFloatOf(targetTemperature).ok)
                => AcControl_target_temperature = None
            /\ (targetTemperature = None /\ Parseable(setpoint))
                => AcControl_target_temperature = PyFloat(PyFloatOf(setpoint).n)
            /\ (targetTemperature = None /\ ~Parseable(setpoint))
                => AcControl_target_temperature = None

C29_Witness ==
    /\ IsAcControl
    /\ get_state_value("targetTemperature") = PyStr("abc")
    /\ get_state_value("setpoint") = PyFloat(190)
    /\ AcControl_target_temperature = None


\* the projected fields of the climate entity
Projected ==
    IF IsRoomController
    THEN <<RoomControllerV2_current_temperature, RoomControllerV2_target_temperature,
           RoomControllerV2_hvac_mode, RoomControllerV2_is_overridden>>
    ELSE <<AcControl_current_temperature, AcControl_target_temperature,
           AcControl_hvac_mode, AcControl_hvac_action>>

CommandOps == {"set_temperature", "set_hvac_mode", "set_preset_mode", "turn_on", "turn_off"}

\* C25: a command of a climate entity (set_temperature, set_hvac_mode,
\* set_preset_mode, turn_on, turn_off) leaves the value cache unchanged, and every
\* projected field reads after the command what it read before it.
C25_CommandLeavesCache ==
    [][ call'.op \in CommandOps =>
            /\ stateAttribValues' = stateAttribValues
            /\ Projected' = Projected ]_vars

C25_Witness ==
    /\ IsRoomController
    /\ call.op = "set_hvac_mode"
    /\ call.hvac_mode = HVACMode_COOL
    /\ fired = <<Command("setOperatingMode/5")>>
    /\ ModeCodeIs(4)
    /\ RoomControllerV2_hvac_mode = HVACMode_HEAT


\* the last operation fired exactly one command, an operating-mode command
OneModeCommand ==
    /\ Len(fired) = 1
    /\ fired[1].uuid = uuidAction
    /\ StartsWith(fired[1].value, "setOperatingMode/")
    /\ IsIntText(After(fired[1].value, "setOperatingMode/"))

\* C26: RoomController turn_off emits exactly one operating-mode command, and once
\* an event echoes the code of that command as operatingMode, hvac_mode reads OFF.
C26_TurnOffReadsOff ==
    IsRoomController =>
        /\ call.op = "turn_off" => OneModeCommand
        /\ (call.op = "event_handler" /\ call.echo = "turn_off")
              => RoomControllerV2_hvac_mode = HVACMode_OFF

\* C27: for every mode m of hvac_modes and every configured auto-mode code 0, 1, 2,
\* RoomController set_hvac_mode(m) emits one operating-mode command, and once an
\* event echoes the code of that command as operatingMode, hvac_mode reads m.
C27_ModeRoundTrip ==
    IsRoomController =>
        /\ (call.op = "set_hvac_mode" /\ call.hvac_mode \in RoomControllerV2_hvac_modes)
              => OneModeCommand
        /\ (/\ call.op = "event_handler"
            /\ call.echo = "set_hvac_mode"
            /\ call.echo_mode \in RoomControllerV2_hvac_modes)
              => RoomControllerV2_hvac_mode = call.echo_mode

C27_Witness ==
    /\ IsRoomController
    /\ call.op = "event_handler"
    /\ call.echo = "set_hvac_mode"
    /\ call.echo_mode = HVACMode_AUTO
    /\ autoMode = 2
    /\ ModeCodeIs(2)
    /\ RoomControllerV2_hvac_mode = HVACMode_AUTO


\* the temperature value a caller of AcControl set_temperature supplied, None if none
AcSuppliedTemperature ==
    IF call.targetTemperature # None THEN call.targetTemperature ELSE call.temperature

\* the cached operatingMode is missing or converts to an integer, so that the
\* encoding of set_temperature does not fail
ModeConverts ==
    \/ get_state_value("operatingMode") = None
    \/ PyIntOf(get_state_value("operatingMode")).ok

\* C28: set_temperature with a temperature value supplied, the value 0 included,
\* emits setManualTemperature/<value> on a RoomController and setTarget/<value> on
\* an AcControl; it emits nothing only when no temperature value is supplied.
C28_ZeroTemperatureSent ==
    call.op = "set_temperature" =>
        /\ (IsRoomController /\ ModeConverts) =>
              IF SuppliedTemperature # None
              THEN "setManualTemperature/" \o Str(SuppliedTemperature) \in FiredPayloads
              ELSE fired = <<>>
        /\ IsAcControl =>
              IF AcSuppliedTemperature # None
              THEN fired = <<Command("setTarget/" \o Str(AcSuppliedTemperature))>>
              ELSE fired = <<>>


\* C30: in every reachable state of a climate entity the keys of the value cache are
\* channel ids of its identifier map: no event stores a value under an id that is not
\* registered for the entity.
C30_CacheKeysRegistered ==
    DOMAIN stateAttribValues \subseteq Range(stateAttribUuids)

C30_Witness ==
    /\ call.op = "event_handler"
    /\ call.hit
    /\ call.others
    /\ DOMAIN stateAttribValues # {}
    /\ DOMAIN stateAttribValues \subseteq Range(stateAttribUuids)
    /\ OtherChannel \notin DOMAIN stateAttribValues

====
